---------------------------- MODULE Spec2Model ----------------------------
(***************************************************************************)
(* A model of src/EDAModule.py: the class ExploratoryDataAnalysis, an      *)
(* inspector bound to one pandas DataFrame.  Every method of the class is  *)
(* one action; the pandas / matplotlib / import machinery the methods call *)
(* is modelled by operators that compute what the library computes.        *)
(***************************************************************************)
EXTENDS Integers, Sequences, FiniteSets, TLC

VARIABLES
  dataset,      \* dataset[self]: self.dataset, the DataFrame inspector self is bound to
  description,  \* description[self]: self.description, absent until setDescription runs
  pkgs,         \* the interpreter's environment: state of each optional package
  file,         \* temp_dataset.csv in the current working directory
  last,         \* the call that returned last: operation, arguments, outcome
  inv           \* inv[t]: the invocation of getAutomaticGraphicalEDA thread t is in

vars == <<dataset, description, pkgs, file, last, inv>>

(***************************************************************************)
(* Bounds of the model.                                                    *)
(***************************************************************************)
MaxCols == 4     \* columns of a dataset of the layout family
MaxRows == 3     \* rows of a dataset of the value family
MaxVal  == 2     \* distinct non-missing cell values 1..MaxVal

(***************************************************************************)
(* Values, columns, datasets.                                              *)
(***************************************************************************)
NA == [na |-> TRUE, v |-> 0]                 \* a missing entry (NaN / None)
V(i) == [na |-> FALSE, v |-> i]
Vals == {V(i) : i \in 1..MaxVal}

Int64 == "int64"
Int32 == "int32"
Float64 == "float64"
Object == "object"
Category == "category"
DTypes == {Int64, Int32, Float64, Object, Category}
IntegerDTypes == {Int64, Int32}              \* integer columns hold no NaN
NumberDTypes == {Int64, Int32, Float64}      \* numpy's np.number

CellsOf(dtype) == IF dtype \in IntegerDTypes THEN Vals ELSE Vals \cup {NA}

ColName(i) == "c" \o ToString(i)

\* a=[1,2,2], b=["x","y","y"]: the 3-row, 2-column example dataset
ExampleDataset ==
  [nrows |-> 3,
   cols  |-> << [name |-> "a", dtype |-> Int64,  vals |-> <<V(1), V(2), V(2)>>],
                [name |-> "b", dtype |-> Object, vals |-> <<V(1), V(2), V(2)>>] >>]

\* layout family: every sequence of at most MaxCols column types, one row
ShapeFamily ==
  UNION { { [nrows |-> 1,
             cols  |-> [i \in 1..n |-> [name |-> ColName(i), dtype |-> ts[i],
                                        vals |-> <<V(1)>>]]] :
              ts \in [1..n -> DTypes] } : n \in 0..MaxCols }

\* value family: no column, or one column of any type with any cells
ValueFamily ==
  { [nrows |-> r, cols |-> <<>>] : r \in 0..MaxRows }
  \cup
  UNION { UNION { { [nrows |-> r,
                     cols  |-> << [name |-> ColName(1), dtype |-> t, vals |-> vs] >>] :
                       vs \in [1..r -> CellsOf(t)] } : t \in DTypes } : r \in 0..MaxRows }

Datasets == ShapeFamily \cup ValueFamily \cup {ExampleDataset}

\* the datasets of the specifications that exercise every operation
SmallDatasets ==
  { d \in Datasets : Len(d.cols) <= 1 /\ d.nrows <= 1 } \cup {ExampleDataset}

(***************************************************************************)
(* pandas, as far as the class uses it.                                    *)
(***************************************************************************)
Min(a, b) == IF a <= b THEN a ELSE b

RECURSIVE SumLens(_)
SumLens(cols) ==
  IF cols = <<>> THEN 0 ELSE Len(Head(cols).vals) + SumLens(Tail(cols))

\* DataFrame.shape: (len(index), len(columns))
shape(df) == <<df.nrows, Len(df.cols)>>

size_rows_plus_columns(df) == df.nrows + Len(df.cols)

\* DataFrame.size: the number of elements of the frame
size(df) == SumLens(df.cols)

\* DataFrame.columns
columns(df) == [i \in 1..Len(df.cols) |-> df.cols[i].name]

\* DataFrame.dtypes
dtypes(df) == [i \in 1..Len(df.cols) |-> [column |-> df.cols[i].name,
                                          dtype  |-> df.cols[i].dtype]]

HeadRows == 5
\* DataFrame.head(): a new frame of the first 5 rows
head(df) ==
  LET n == Min(df.nrows, HeadRows)
  IN  [nrows |-> n,
       cols  |-> [i \in 1..Len(df.cols) |->
                    [df.cols[i] EXCEPT !.vals = SubSeq(df.cols[i].vals, 1, n)]]]

RECURSIVE CountNA(_)
CountNA(vs) ==
  IF vs = <<>> THEN 0
  ELSE (IF Head(vs).na THEN 1 ELSE 0) + CountNA(Tail(vs))

\* DataFrame.isnull().sum()
isnull_sum(df) == [i \in 1..Len(df.cols) |-> [column |-> df.cols[i].name,
                                              count  |-> CountNA(df.cols[i].vals)]]

InSeq(x, s) == \E k \in 1..Len(s) : s[k] = x

\* pandas.unique: the values in order of first appearance (NaN is one value)
RECURSIVE unique(_, _)
unique(vs, seen) ==
  IF vs = <<>> THEN seen
  ELSE unique(Tail(vs), IF InSeq(Head(vs), seen) THEN seen ELSE Append(seen, Head(vs)))

nunique_keepna(vs, dropna) == Len(unique(vs, <<>>))

\* Series.nunique(dropna): len of the uniques, the missing one removed if dropna
nunique(vs, dropna) ==
  LET u == unique(vs, <<>>)
  IN  IF dropna THEN Len(SelectSeq(u, LAMBDA x : ~x.na)) ELSE Len(u)

\* DataFrame.nunique(): dropna defaults to True
df_nunique(df) == [i \in 1..Len(df.cols) |-> [column |-> df.cols[i].name,
                                              count  |-> nunique(df.cols[i].vals, TRUE)]]

RECURSIVE CountOf(_, _)
CountOf(x, vs) ==
  IF vs = <<>> THEN 0
  ELSE (IF Head(vs) = x THEN 1 ELSE 0) + CountOf(x, Tail(vs))

\* Series.value_counts(): each non-missing value with its frequency
value_counts(vs) ==
  LET u == SelectSeq(unique(vs, <<>>), LAMBDA x : ~x.na)
  IN  [k \in 1..Len(u) |-> [value |-> u[k], count |-> CountOf(u[k], vs)]]

\* DataFrame.select_dtypes(include=...): the columns whose dtype is listed
select_dtypes(df, include) == SelectSeq(df.cols, LAMBDA c : c.dtype \in include)

Names(cols) == [i \in 1..Len(cols) |-> cols[i].name]

\* DataFrame.describe(): count / min / max of each numeric column (the mean,
\* std and quartiles are real-valued and not part of the model)
NonNA(vs) == SelectSeq(vs, LAMBDA x : ~x.na)
SeqMin(vs) == CHOOSE x \in {vs[k] : k \in 1..Len(vs)} :
                \A k \in 1..Len(vs) : x.v <= vs[k].v
SeqMax(vs) == CHOOSE x \in {vs[k] : k \in 1..Len(vs)} :
                \A k \in 1..Len(vs) : x.v >= vs[k].v
describe(df) ==
  LET num  == select_dtypes(df, NumberDTypes)
      sel  == IF num = <<>> THEN df.cols ELSE num
  IN  [i \in 1..Len(sel) |->
         LET nn == NonNA(sel[i].vals)
         IN  [column |-> sel[i].name,
              count  |-> Len(nn),
              min    |-> IF nn = <<>> \/ num = <<>> THEN NA ELSE SeqMin(nn),
              max    |-> IF nn = <<>> \/ num = <<>> THEN NA ELSE SeqMax(nn)]]

\* the text of one cell in a CSV file
CellText(dtype, x) ==
  IF x.na THEN ""
  ELSE IF dtype = Float64 THEN ToString(x.v) \o ".0"
  ELSE IF dtype \in IntegerDTypes THEN ToString(x.v)
  ELSE "s" \o ToString(x.v)

CsvLines(df, index) ==
  [r \in 1..(df.nrows + 1) |->
     (IF index THEN <<IF r = 1 THEN "" ELSE ToString(r - 2)>> ELSE <<>>) \o
     [c \in 1..Len(df.cols) |->
        IF r = 1 THEN df.cols[c].name
        ELSE CellText(df.cols[c].dtype, df.cols[c].vals[r - 1])]]

to_csv_with_index(df, index) == CsvLines(df, TRUE)

\* DataFrame.to_csv(path, index=False): the header line, then one line per row
to_csv(df, index) == CsvLines(df, index)


(***************************************************************************)
(* What a call leaves behind: its outcome, the figure it rendered, and for *)
(* the auto-EDA operations the trace of their import / install steps.      *)
(***************************************************************************)
\* Python values a call takes or returns, tagged with their type
None == [none |-> TRUE]
NoArgs == [none |-> TRUE]
Tuple(x) == [tuple |-> x]
PyInt(x) == [int |-> x]
Str(x) == [str |-> x]
Frame(x) == [frame |-> x]
Index(x) == [index |-> x]
Series(x) == [series |-> x]
NoExc == [type |-> "", text |-> ""]
Exc(type, text) == [type |-> type, text |-> text]
NoFile == [exists |-> FALSE, content |-> <<>>]
NoFigure == [rows |-> 0, cols |-> 0, populated |-> <<>>, hidden |-> <<>>]
NoTrace == [printed |-> <<>>, imports |-> <<>>, installs |-> <<>>,
            invoked |-> FALSE, wrote |-> FALSE, input |-> NoFile]

Returned(op, args, value) ==
  [op |-> op, args |-> args, outcome |-> "return", exc |-> NoExc,
   value |-> value, figure |-> NoFigure, trace |-> NoTrace]

Raised(op, args, e) ==
  [op |-> op, args |-> args, outcome |-> "raise", exc |-> e,
   value |-> None, figure |-> NoFigure, trace |-> NoTrace]

\* the call r, made on inspector self
On(self, r) ==
  [self |-> self, op |-> r.op, args |-> r.args, outcome |-> r.outcome, exc |-> r.exc,
   value |-> r.value, figure |-> r.figure, trace |-> r.trace]

Unset == [set |-> FALSE, value |-> ""]

(***************************************************************************)
(* matplotlib, as far as the class uses it.                                *)
(***************************************************************************)
num_cols == 3

\* math.ceil(n / d) for n >= 0, d > 0
ceil_div(n, d) == (n + d - 1) \div d

\* plt.subplots(nrows, ncols) with squeeze=True (the default): a single row
\* gives a 1-D array of axes, more rows a 2-D array; zero rows are refused by
\* a matplotlib that validates the grid (3.x) and give an empty 2-D array in
\* one that does not; setup.py pins no version
subplots(nrows, ncols, validates) ==
  IF nrows = 0 /\ validates
  THEN [ok |-> FALSE, ndim |-> 0,
        exc |-> Exc("ValueError", "Number of rows must be a positive integer, not 0")]
  ELSE [ok |-> TRUE, ndim |-> IF nrows = 1 \/ ncols = 1 THEN 1 ELSE 2, exc |-> NoExc]

\* axs[i, j]: two indices into the array plt.subplots returned
axs_item(fig, i, j) ==
  IF fig.ndim = 2 THEN [ok |-> TRUE, exc |-> NoExc]
  ELSE [ok |-> FALSE,
        exc |-> Exc("IndexError", "too many indices for array: array is 1-dimensional, but 2 were indexed")]

\* the double loop "for i in range(num_rows): for j in range(num_cols)",
\* cell k = i * num_cols + j, with the figure built so far
RECURSIVE GridLoop(_, _, _, _, _, _, _)
GridLoop(fig, num_rows, variables, kind, k, variable_index, figure) ==
  IF k >= num_rows * num_cols THEN [ok |-> TRUE, exc |-> NoExc, figure |-> figure]
  ELSE LET i  == k \div num_cols
           j  == k % num_cols
           ax == axs_item(fig, i, j)
       IN  IF ~ax.ok THEN [ok |-> FALSE, exc |-> ax.exc, figure |-> figure]
           ELSE IF variable_index < Len(variables)
           THEN GridLoop(fig, num_rows, variables, kind, k + 1, variable_index + 1,
                  [figure EXCEPT !.populated =
                     Append(@, [cell |-> <<i, j>>, kind |-> kind,
                                title |-> variables[variable_index + 1]])])
           ELSE GridLoop(fig, num_rows, variables, kind, k + 1, variable_index,
                  [figure EXCEPT !.hidden = Append(@, <<i, j>>)])

\* the body shared by getBoxplots, getHistograms and
\* plot_bar_charts_categorical_columns
PlotGrid(op, args, variables, kind, validates) ==
  LET num_rows == ceil_div(Len(variables), num_cols)
      fig      == subplots(num_rows, num_cols, validates)
  IN  IF ~fig.ok THEN Raised(op, args, fig.exc)
      ELSE LET run == GridLoop(fig, num_rows, variables, kind, 0, 0,
                               [rows |-> num_rows, cols |-> num_cols,
                                populated |-> <<>>, hidden |-> <<>>])
           IN  IF ~run.ok THEN Raised(op, args, run.exc)
               ELSE [Returned(op, args, None) EXCEPT !.figure = run.figure]

(***************************************************************************)
(* The operations that only read the dataset.                              *)
(***************************************************************************)
NumericInclude == {Float64, Int64}
CategoricalInclude == {Object, Category}

get_numeric_columns_value(df) == Names(select_dtypes(df, NumericInclude))
get_categorical_columns_value(df) == Names(select_dtypes(df, CategoricalInclude))

\* self.dataset[col]
Column(df, name) == CHOOSE c \in {df.cols[i] : i \in 1..Len(df.cols)} : c.name = name

\* the inspectors that exist
Inspectors == DOMAIN dataset

\* a call on inspector self that changes nothing but what it returns
Call(self, r) ==
  /\ last' = On(self, r)
  /\ UNCHANGED <<dataset, description, pkgs, file, inv>>

getShape(self) == Call(self, Returned("getShape", NoArgs, Tuple(shape(dataset[self]))))

getSize(self) == Call(self, Returned("getSize", NoArgs, PyInt(size(dataset[self]))))

getHead(self) == Call(self, Returned("getHead", NoArgs, Frame(head(dataset[self]))))

getColumns(self) == Call(self, Returned("getColumns", NoArgs, Index(columns(dataset[self]))))

getTypes(self) == Call(self, Returned("getTypes", NoArgs, Series(dtypes(dataset[self]))))

getStatistics(self) ==
  Call(self, IF Len(dataset[self].cols) = 0
             THEN Raised("getStatistics", NoArgs,
                         Exc("ValueError", "Cannot describe a DataFrame without columns"))
             ELSE Returned("getStatistics", NoArgs, [describe |-> describe(dataset[self])]))

getNulls(self) == Call(self, Returned("getNulls", NoArgs, Series(isnull_sum(dataset[self]))))

get_numeric_columns(self) ==
  Call(self, Returned("get_numeric_columns", NoArgs,
                      Index(get_numeric_columns_value(dataset[self]))))

get_categorical_columns(self) ==
  Call(self, Returned("get_categorical_columns", NoArgs,
                      Index(get_categorical_columns_value(dataset[self]))))

getUniques(self) == Call(self, Returned("getUniques", NoArgs, Series(df_nunique(dataset[self]))))

countUniques(self) ==
  LET cs == columns(dataset[self])
  IN  Call(self, Returned("countUniques", NoArgs,
             [report |-> [i \in 1..Len(cs) |->
                [column |-> cs[i],
                 counts |-> value_counts(Column(dataset[self], cs[i]).vals)]]]))

getBoxplots_rebinding(self) ==
  \E validates \in BOOLEAN :
    /\ dataset' = [dataset EXCEPT ![self].cols = select_dtypes(dataset[self], NumericInclude)]
    /\ last' = On(self, PlotGrid("getBoxplots", NoArgs,
                          get_numeric_columns_value(dataset[self]), "box", validates))
    /\ UNCHANGED <<description, pkgs, file, inv>>

getBoxplots(self) ==
  \E validates \in BOOLEAN :
    Call(self, PlotGrid("getBoxplots", NoArgs,
                        get_numeric_columns_value(dataset[self]), "box", validates))

getHistograms(self) ==
  \E nBins \in {10, 20}, validates \in BOOLEAN :
    Call(self, PlotGrid("getHistograms", [nBins |-> nBins],
                        get_numeric_columns_value(dataset[self]), "hist", validates))

plot_bar_charts_categorical_columns(self) ==
  \E validates \in BOOLEAN :
    Call(self, PlotGrid("plot_bar_charts_categorical_columns", NoArgs,
                        get_categorical_columns_value(dataset[self]), "bar", validates))

\* DataFrame.corr(): pandas before 2.0 drops the non-numeric columns, pandas
\* from 2.0 on refuses them; setup.py pins no version
getCorrelationMatrix(self) ==
  \E numeric_only \in BOOLEAN :
    LET num == select_dtypes(dataset[self], NumberDTypes)
    IN  Call(self,
             IF ~numeric_only /\ Len(num) < Len(dataset[self].cols)
             THEN Raised("getCorrelationMatrix", NoArgs,
                         Exc("ValueError", "could not convert string to float"))
             ELSE [Returned("getCorrelationMatrix", NoArgs, None) EXCEPT !.figure =
                     [rows |-> 1, cols |-> 1, hidden |-> <<>>,
                      populated |-> << [cell |-> <<0, 0>>, kind |-> "heatmap",
                                        title |-> "Correlation Matrix"] >>]])

(***************************************************************************)
(* The description.                                                        *)
(***************************************************************************)
Descriptions == {"x", "y"}

setDescription_keep_first(self, text) ==
  /\ description' = [description EXCEPT ![self] =
                       IF @.set THEN @ ELSE [set |-> TRUE, value |-> text]]
  /\ last' = On(self, Returned("setDescription", [description |-> text], None))
  /\ UNCHANGED <<dataset, pkgs, file, inv>>

setDescription(self, text) ==
  /\ description' = [description EXCEPT ![self] = [set |-> TRUE, value |-> text]]
  /\ last' = On(self, Returned("setDescription", [description |-> text], None))
  /\ UNCHANGED <<dataset, pkgs, file, inv>>

getDescription(self) ==
  Call(self, IF description[self].set
             THEN Returned("getDescription", NoArgs, Str(description[self].value))
             ELSE Raised("getDescription", NoArgs,
                         Exc("AttributeError",
                             "'ExploratoryDataAnalysis' object has no attribute 'description'")))

(***************************************************************************)
(* Python's import system and pip, as far as the auto-EDA operations use   *)
(* them.  A package is absent, present, or broken (installed, but raising  *)
(* something other than ImportError when imported).                        *)
(***************************************************************************)
PkgStates == {"absent", "present", "broken"}
NoPkgs == [sweetviz |-> "absent", autoviz |-> "absent"]

\* the names a module of the external libraries defines
ModuleNames(module) ==
  IF module = "sweetviz"
  THEN {"analyze", "compare", "compare_intra", "FeatureConfig", "DataframeReport"}
  ELSE IF module = "autoviz.AutoViz_Class" THEN {"AutoViz_Class"}
  ELSE {}

\* import sweetviz as sv
SweetvizImport == [package |-> "sweetviz", module |-> "sweetviz", name |-> ""]
\* from sweetviz import sv
SweetvizRetry == [package |-> "sweetviz", module |-> "sweetviz", name |-> "sv"]
\* from autoviz.AutoViz_Class import AutoViz_Class
AutovizImport == [package |-> "autoviz", module |-> "autoviz.AutoViz_Class",
                  name |-> "AutoViz_Class"]

\* an import statement run in environment env: NoExc, or what it raises
import(stmt, env) ==
  IF env[stmt.package] = "absent"
  THEN Exc("ModuleNotFoundError", "No module named '" \o stmt.package \o "'")
  ELSE IF env[stmt.package] = "broken"
  THEN Exc("AttributeError", "module raised while being imported")
  ELSE IF stmt.name = "" \/ stmt.name \in ModuleNames(stmt.module) THEN NoExc
  ELSE Exc("ImportError",
           "cannot import name '" \o stmt.name \o "' from '" \o stmt.module \o "'")

\* subprocess.run(["pip", "install", package]) without check=True: raises only
\* when pip cannot be started; a failing pip returns normally
InstallOutcomes == {"installed", "broken", "failed", "nopip"}
pip_install(package, out, env) ==
  IF out = "nopip"
  THEN [exc |-> Exc("FileNotFoundError", "[Errno 2] No such file or directory: 'pip'"),
        env |-> env]
  ELSE IF out = "failed" THEN [exc |-> NoExc, env |-> env]
  ELSE [exc |-> NoExc,
        env |-> [env EXCEPT ![package] = IF out = "installed" THEN "present" ELSE "broken"]]

ImportErrorTypes == {"ImportError", "ModuleNotFoundError"}
ExceptionTypes == ImportErrorTypes \cup
                  {"AttributeError", "FileNotFoundError", "ValueError", "IndexError"}

\* except ImportError:
ExceptImportError(e) == e.type \in ImportErrorTypes

ExceptException_import_only(e) == e.type \in ImportErrorTypes

\* except Exception as e:
ExceptException(e) == e.type \in ExceptionTypes

NotInstalled(lib) == [text |-> "no esta instalado. Intentando instalarlo...",
                      lib |-> lib, error |-> ""]
CouldNotInstall(lib, e) ==
  [text |-> "No se pudo instalar. Por favor, instalalo manualmente. Error:",
   lib |-> lib, error |-> e.text]

\* the try / except ImportError / try / except Exception block both auto-EDA
\* operations open with: "proceed" (the library is bound), "return" or "raise"
ImportOrInstall(first, retry, lib, out, env) ==
  LET r1 == import(first, env)
      t0 == [NoTrace EXCEPT !.imports = <<r1>>]
  IN  IF r1 = NoExc THEN [outcome |-> "proceed", exc |-> NoExc, env |-> env, trace |-> t0]
      ELSE IF ~ExceptImportError(r1)
      THEN [outcome |-> "raise", exc |-> r1, env |-> env, trace |-> t0]
      ELSE LET inst == pip_install(first.package, out, env)
               t1   == [t0 EXCEPT !.printed = <<NotInstalled(lib)>>,
                                  !.installs = <<inst.exc>>]
           IN  IF inst.exc # NoExc
               THEN IF ExceptException(inst.exc)
                    THEN [outcome |-> "return", exc |-> NoExc, env |-> inst.env,
                          trace |-> [t1 EXCEPT !.printed =
                                       Append(@, CouldNotInstall(lib, inst.exc))]]
                    ELSE [outcome |-> "raise", exc |-> inst.exc, env |-> inst.env,
                          trace |-> t1]
               ELSE LET r2 == import(retry, inst.env)
                        t2 == [t1 EXCEPT !.imports = Append(@, r2)]
                    IN  IF r2 = NoExc
                        THEN [outcome |-> "proceed", exc |-> NoExc, env |-> inst.env,
                              trace |-> t2]
                        ELSE IF ExceptException(r2)
                        THEN [outcome |-> "return", exc |-> NoExc, env |-> inst.env,
                              trace |-> [t2 EXCEPT !.printed =
                                           Append(@, CouldNotInstall(lib, r2))]]
                        ELSE [outcome |-> "raise", exc |-> r2, env |-> inst.env,
                              trace |-> t2]

\* what the call leaves behind when the import block did not bind the library
NotBound(op, r) ==
  [op |-> op, args |-> NoArgs, outcome |-> r.outcome, exc |-> r.exc,
   value |-> None, figure |-> NoFigure, trace |-> r.trace]

getAutomaticStatisticalEDA(self) ==
  \E out \in InstallOutcomes :
    LET r == ImportOrInstall(SweetvizImport, SweetvizRetry, "Sweetviz", out, pkgs)
    IN  /\ pkgs' = r.env
        /\ last' = On(self, (IF r.outcome = "proceed"
              THEN [Returned("getAutomaticStatisticalEDA", NoArgs, None)
                      EXCEPT !.trace = [r.trace EXCEPT !.invoked = TRUE]]
              ELSE NotBound("getAutomaticStatisticalEDA", r)))
        /\ UNCHANGED <<dataset, description, file, inv>>

\* self.dataset.to_csv('temp_dataset.csv', index=False)
WriteCsv(df) == [exists |-> TRUE, content |-> to_csv(df, FALSE)]

getAutomaticGraphicalEDA(self) ==
  \E out \in InstallOutcomes :
    LET r == ImportOrInstall(AutovizImport, AutovizImport, "Autoviz", out, pkgs)
    IN  /\ pkgs' = r.env
        /\ IF r.outcome = "proceed"
           THEN /\ file' = WriteCsv(dataset[self])
                /\ last' = On(self, [Returned("getAutomaticGraphicalEDA", NoArgs, None)
                        EXCEPT !.trace = [r.trace EXCEPT !.wrote = TRUE,
                                                         !.invoked = TRUE,
                                                         !.input = file']])
           ELSE /\ file' = file
                /\ last' = On(self, NotBound("getAutomaticGraphicalEDA", r))
        /\ UNCHANGED <<dataset, description, inv>>

(***************************************************************************)
(* Specifications.                                                         *)
(***************************************************************************)
\* __init__: inspector self right after construction on dataset d
Constructed(ds) ==
  /\ dataset = ds
  /\ description = [self \in DOMAIN ds |-> Unset]
  /\ file = NoFile
  /\ last = On("a", Returned("__init__", NoArgs, None))

InitQuery ==
  /\ \E d \in Datasets : Constructed([self \in {"a"} |-> d])
  /\ pkgs = NoPkgs
  /\ inv = <<>>

NextQuery ==
  \/ \E self \in Inspectors : getShape(self)
  \/ \E self \in Inspectors : getSize(self)
  \/ \E self \in Inspectors : getHead(self)
  \/ \E self \in Inspectors : getColumns(self)
  \/ \E self \in Inspectors : getTypes(self)
  \/ \E self \in Inspectors : getStatistics(self)
  \/ \E self \in Inspectors : getNulls(self)
  \/ \E self \in Inspectors : get_numeric_columns(self)
  \/ \E self \in Inspectors : get_categorical_columns(self)
  \/ \E self \in Inspectors : getUniques(self)
  \/ \E self \in Inspectors : countUniques(self)
  \/ \E self \in Inspectors : getBoxplots(self)
  \/ \E self \in Inspectors : getHistograms(self)
  \/ \E self \in Inspectors : plot_bar_charts_categorical_columns(self)
  \/ \E self \in Inspectors : getCorrelationMatrix(self)

\* the read-only operations, over every dataset of the families
SpecQuery == InitQuery /\ [][NextQuery]_vars

\* the datasets an inspector is given when a second inspector exists
PairedDatasets == { d \in SmallDatasets : \A i \in 1..Len(d.cols) : d.cols[i].dtype = Float64 }

Init ==
  /\ \/ \E d \in SmallDatasets : Constructed([self \in {"a"} |-> d])
     \/ \E d \in PairedDatasets : Constructed([self \in {"a", "b"} |->
                                                 IF self = "a" THEN d ELSE ExampleDataset])
  /\ pkgs \in [sweetviz : PkgStates, autoviz : PkgStates]
  /\ inv = <<>>

Next ==
  \/ NextQuery
  \/ \E self \in Inspectors : \E text \in Descriptions : setDescription(self, text)
  \/ \E self \in Inspectors : getDescription(self)
  \/ \E self \in Inspectors : getAutomaticStatisticalEDA(self)
  \/ \E self \in Inspectors : getAutomaticGraphicalEDA(self)

\* every operation of the inspectors, called one after the other
Spec == Init /\ [][Next]_vars

(***************************************************************************)
(* getAutomaticGraphicalEDA called from two threads, each on its own       *)
(* inspector, in one working directory.  The method takes no lock and the  *)
(* file name is fixed, so the threads interleave at its file operations:   *)
(* the import block, then to_csv, then AutoViz reading the file.           *)
(***************************************************************************)
Threads == {"t1", "t2"}
InspectorOf(t) == IF t = "t1" THEN "a" ELSE "b"

\* lines 210-220: the import block
GImport(t) ==
  /\ inv[t].pc = "import"
  /\ \E out \in InstallOutcomes :
       LET r == ImportOrInstall(AutovizImport, AutovizImport, "Autoviz", out, pkgs)
       IN  /\ pkgs' = r.env
           /\ IF r.outcome = "proceed"
              THEN /\ inv' = [inv EXCEPT ![t].pc = "write", ![t].trace = r.trace]
                   /\ last' = last
              ELSE /\ inv' = [inv EXCEPT ![t].pc = "done", ![t].trace = r.trace]
                   /\ last' = On(inv[t].self, NotBound("getAutomaticGraphicalEDA", r))
  /\ UNCHANGED <<dataset, description, file>>

GWrite_locked(t) ==
  /\ inv[t].pc = "write"
  /\ \A u \in Threads \ {t} : inv[u].pc # "read"
  /\ file' = WriteCsv(dataset[inv[t].self])
  /\ inv' = [inv EXCEPT ![t].pc = "read", ![t].trace.wrote = TRUE]
  /\ UNCHANGED <<dataset, description, pkgs, last>>

\* lines 221-222: self.dataset.to_csv(csv_filename, index=False)
GWrite(t) ==
  /\ inv[t].pc = "write"
  /\ file' = WriteCsv(dataset[inv[t].self])
  /\ inv' = [inv EXCEPT ![t].pc = "read", ![t].trace.wrote = TRUE]
  /\ UNCHANGED <<dataset, description, pkgs, last>>

\* lines 223-224: AV.AutoViz(csv_filename) reads the file as it is now
GRead(t) ==
  /\ inv[t].pc = "read"
  /\ LET tr == [inv[t].trace EXCEPT !.invoked = TRUE, !.input = file]
     IN  /\ inv' = [inv EXCEPT ![t].pc = "done", ![t].trace = tr]
         /\ last' = On(inv[t].self, [Returned("getAutomaticGraphicalEDA", NoArgs, None)
                         EXCEPT !.trace = tr])
  /\ UNCHANGED <<dataset, description, pkgs, file>>

InitConc ==
  /\ \E d, e \in PairedDatasets \cup {ExampleDataset} :
       Constructed([self \in {"a", "b"} |-> IF self = "a" THEN d ELSE e])
  /\ pkgs \in [sweetviz : {"absent"}, autoviz : PkgStates]
  /\ inv = [t \in Threads |-> [self |-> InspectorOf(t), pc |-> "import",
                               trace |-> NoTrace]]

NextConc ==
  \/ \E t \in Threads : GImport(t)
  \/ \E t \in Threads : GWrite(t)
  \/ \E t \in Threads : GRead(t)

SpecConc == InitConc /\ [][NextConc]_vars

(***************************************************************************)
(* Properties of the read-only operations (SpecQuery).                     *)
(***************************************************************************)
SeqToSet(q) == {q[k] : k \in 1..Len(q)}
Bound == dataset[last.self]          \* the dataset the last call ran on

PlotOps == {"getBoxplots", "getHistograms", "plot_bar_charts_categorical_columns"}

\* the columns a plotting operation charts
Eligible(op, df) ==
  IF op = "plot_bar_charts_categorical_columns"
  THEN get_categorical_columns_value(df)
  ELSE get_numeric_columns_value(df)

\* a grid of ceil(N/3) rows by 3 columns, the N eligible columns charted row by
\* row in column order, the remaining cells hidden
GridOf(figure, variables) ==
  LET N    == Len(variables)
      rows == ceil_div(N, 3)
  IN  /\ figure.rows = rows
      /\ figure.cols = 3
      /\ Len(figure.populated) = N
      /\ \A k \in 1..N : /\ figure.populated[k].cell = <<(k - 1) \div 3, (k - 1) % 3>>
                         /\ figure.populated[k].title = variables[k]
      /\ Len(figure.hidden) = 3 * rows - N
      /\ \A k \in 1..Len(figure.hidden) :
           figure.hidden[k] = <<(N + k - 1) \div 3, (N + k - 1) % 3>>

\* C2: getBoxplots, getHistograms and plot_bar_charts_categorical_columns
\* complete for every number N of eligible columns (N = 0 and 1 <= N <= 3
\* included) with a grid of ceil(N/3) x 3 cells, N of them populated in column
\* order and 3*ceil(N/3) - N hidden.
C2_GridLayout ==
  last.op \in PlotOps =>
    /\ last.outcome = "return"
    /\ GridOf(last.figure, Eligible(last.op, Bound))

\* What the code does do: from four eligible columns on (two grid rows or more)
\* the call completes with exactly that grid; with one to three it raises
\* IndexError; with none it raises ValueError or draws an empty grid.
GridLayoutFromFourColumns ==
  last.op \in PlotOps =>
    LET N == Len(Eligible(last.op, Bound))
    IN  /\ N >= 4 => last.outcome = "return" /\ GridOf(last.figure, Eligible(last.op, Bound))
        /\ N \in 1..3 => last.outcome = "raise" /\ last.exc.type = "IndexError"
        /\ N = 0 => \/ last.outcome = "raise" /\ last.exc.type = "ValueError"
                    \/ last.outcome = "return" /\ GridOf(last.figure, <<>>)

\* a boxplot call on a dataset of two numeric columns, ended by IndexError
C2_Witness ==
  /\ last.op = "getBoxplots"
  /\ Len(Eligible(last.op, Bound)) = 2
  /\ last.outcome = "raise"
  /\ last.exc.type = "IndexError"

\* C6: for a dataset of R rows and C columns (R >= 0, C >= 0) getShape()
\* returns (R, C) and getSize() returns R*C, the product of the two components
\* of getShape().
C6_ShapeAndSize ==
  /\ last.op = "getShape" => last.value = Tuple(<<Bound.nrows, Len(Bound.cols)>>)
  /\ last.op = "getSize" =>
       /\ last.value = PyInt(Bound.nrows * Len(Bound.cols))
       /\ last.value = PyInt(shape(Bound)[1] * shape(Bound)[2])

C6_Witness ==
  /\ last.op = "getSize"
  /\ Bound.nrows = 3
  /\ Len(Bound.cols) = 2
  /\ last.value = PyInt(6)

FloatOrIntegerDTypes == {Float64, Int64, Int32}
TextOrCategoricalDTypes == {Object, Category}
OfTypes(df, types) == Names(SelectSeq(df.cols, LAMBDA c : c.dtype \in types))

\* C7: get_numeric_columns() returns, in column order, exactly the columns of
\* a floating-point or integer type of any width, get_categorical_columns()
\* exactly those of object or categorical type; on a dataset of only these two
\* classes the results are disjoint and together hold every column.
C7_ColumnClasses ==
  /\ last.op = "get_numeric_columns" =>
       last.value = Index(OfTypes(Bound, FloatOrIntegerDTypes))
  /\ last.op = "get_categorical_columns" =>
       last.value = Index(OfTypes(Bound, TextOrCategoricalDTypes))
  /\ last.op \in {"get_numeric_columns", "get_categorical_columns"} =>
       LET num == SeqToSet(get_numeric_columns_value(Bound))
           cat == SeqToSet(get_categorical_columns_value(Bound))
       IN  /\ num \cap cat = {}
           /\ num \cup cat = SeqToSet(columns(Bound))

\* What the code does do: it selects exactly the 64-bit columns.
NumericColumnsAre64Bit ==
  /\ last.op = "get_numeric_columns" => last.value = Index(OfTypes(Bound, {Float64, Int64}))
  /\ last.op = "get_categorical_columns" =>
       last.value = Index(OfTypes(Bound, TextOrCategoricalDTypes))

\* a 32-bit integer column that get_numeric_columns left out
C7_Witness ==
  /\ last.op = "get_numeric_columns"
  /\ \E i \in 1..Len(Bound.cols) :
       /\ Bound.cols[i].dtype = Int32
       /\ ~InSeq(Bound.cols[i].name, last.value.index)

\* C9 as stated: getUniques()[col] is the number of distinct values occurring
\* in the column, a missing entry being one of the values that occur.
C9_DistinctValuesOriginal ==
  last.op = "getUniques" =>
    /\ Len(last.value.series) = Len(Bound.cols)
    /\ \A i \in 1..Len(Bound.cols) :
         /\ last.value.series[i].column = Bound.cols[i].name
         /\ last.value.series[i].count = Cardinality(SeqToSet(Bound.cols[i].vals))

\* C9, amended: getUniques()[col] is the number of distinct non-missing values
\* of the column; missing entries are not counted, however many there are.
C9_DistinctNonMissingValues ==
  last.op = "getUniques" =>
    /\ Len(last.value.series) = Len(Bound.cols)
    /\ \A i \in 1..Len(Bound.cols) :
         /\ last.value.series[i].column = Bound.cols[i].name
         /\ last.value.series[i].count = Cardinality(SeqToSet(Bound.cols[i].vals) \ {NA})

C9_Witness ==
  /\ last.op = "getUniques"
  /\ \E i \in 1..Len(Bound.cols) :
       /\ CountNA(Bound.cols[i].vals) >= 1
       /\ Len(Bound.cols[i].vals) = 3
       /\ last.value.series[i].count = 1

(***************************************************************************)
(* Properties of the whole inspector (Spec).                               *)
(***************************************************************************)
AutoOps == {"getAutomaticStatisticalEDA", "getAutomaticGraphicalEDA"}
PackageOf(op) == IF op = "getAutomaticStatisticalEDA" THEN "sweetviz" ELSE "autoviz"

\* C1: getDescription fails with an attribute error while no setDescription
\* has run since construction and otherwise returns exactly the argument of
\* the most recent setDescription; nothing but setDescription sets, changes
\* or clears the description.
C1_Description ==
  /\ [](/\ last.op = "getDescription" =>
             IF description[last.self].set
             THEN /\ last.outcome = "return"
                  /\ last.value = Str(description[last.self].value)
             ELSE /\ last.outcome = "raise"
                  /\ last.exc.type = "AttributeError"
        /\ last.op = "setDescription" =>
             description[last.self] = [set |-> TRUE, value |-> last.args.description]
        /\ last.op = "__init__" => \A self \in Inspectors : ~description[self].set)
  /\ [][\A self \in Inspectors :
          description'[self] # description[self] =>
            /\ last'.op = "setDescription"
            /\ last'.self = self]_vars

C1_Witness ==
  /\ last.op = "getDescription"
  /\ last.outcome = "return"
  /\ last.value = Str("y")

FirstImportFailed(tr) == Len(tr.imports) >= 1 /\ tr.imports[1] # NoExc
HandlerEntered(tr) == FirstImportFailed(tr) /\ tr.imports[1].type \in ImportErrorTypes
InstallRaised(tr) == Len(tr.installs) = 1 /\ tr.installs[1] # NoExc
SecondImportFailed(tr) == Len(tr.imports) = 2 /\ tr.imports[2] # NoExc
\* the exception the install step or the second import ended with
Underlying(tr) == IF InstallRaised(tr) THEN tr.installs[1] ELSE tr.imports[2]

\* the last call was an auto-EDA operation whose first import failed and whose
\* install step or second import failed too
Degraded ==
  /\ last.op \in AutoOps
  /\ FirstImportFailed(last.trace)
  /\ InstallRaised(last.trace) \/ SecondImportFailed(last.trace)

\* C3: when the initial import fails and the install step or the second
\* import fails too, whatever the failure, the operation prints a message
\* holding the exception's text and returns normally: nothing raised, nothing
\* returned, the library not invoked, the CSV file not written.
C3_DegradeOnImportFailure ==
  /\ [](Degraded =>
          /\ last.outcome = "return"
          /\ last.exc = NoExc
          /\ last.value = None
          /\ ~last.trace.invoked
          /\ ~last.trace.wrote
          /\ Len(last.trace.printed) = 2
          /\ last.trace.printed[2].error = Underlying(last.trace).text
          /\ last.trace.printed[2].error # "")
  /\ [][Degraded' => file' = file]_vars

C3_Witness ==
  /\ Degraded
  /\ last.op = "getAutomaticGraphicalEDA"
  /\ InstallRaised(last.trace)
  /\ last.trace.printed[2].error = "[Errno 2] No such file or directory: 'pip'"

\* C4: when the initial import fails (the library is not installed) the
\* operation makes exactly one install attempt and then one re-import attempt,
\* never more, and if the install made the library available the re-import
\* succeeds and the operation delegates to the library as it does when the
\* initial import succeeds.
C4_InstallThenDelegate ==
  last.op \in AutoOps /\ HandlerEntered(last.trace) =>
    /\ Len(last.trace.installs) = 1
    /\ Len(last.trace.imports) <= 2
    /\ ~InstallRaised(last.trace) => Len(last.trace.imports) = 2
    /\ pkgs[PackageOf(last.op)] = "present" =>
         /\ last.trace.imports[2] = NoExc
         /\ last.trace.invoked
         /\ last.outcome = "return"

\* What the code does do: the graphical operation behaves as C4 says; the
\* statistical one never gets past its re-import.
InstallThenDelegateGraphicalOnly ==
  /\ last.op = "getAutomaticGraphicalEDA" => C4_InstallThenDelegate
  /\ last.op = "getAutomaticStatisticalEDA" /\ HandlerEntered(last.trace) =>
       ~last.trace.invoked

\* sweetviz was absent, pip installed it, and the re-import still failed
C4_Witness ==
  /\ last.op = "getAutomaticStatisticalEDA"
  /\ pkgs.sweetviz = "present"
  /\ Len(last.trace.installs) = 1
  /\ SecondImportFailed(last.trace)
  /\ last.trace.imports[2].type = "ImportError"
  /\ ~last.trace.invoked

\* each operation leaves the dataset alone and only setDescription touches the
\* description, only getAutomaticGraphicalEDA the file
FrameOfStep ==
  /\ dataset' = dataset
  /\ description' # description => last'.op = "setDescription"
  /\ file' # file => last'.op = "getAutomaticGraphicalEDA"

\* C5 as stated: every operation leaves the bound dataset and the binding
\* unchanged; the only inspector state an operation changes is the description
\* (setDescription), the only external state the temporary CSV file
\* (getAutomaticGraphicalEDA).
C5_FrameOriginal == [][FrameOfStep /\ pkgs' = pkgs]_vars

\* C5, amended: as stated, except that the external state an operation may
\* change is the temporary CSV file and also the installed packages, which the
\* install step of the two auto-EDA operations changes.
C5_Frame ==
  [][/\ FrameOfStep
     /\ pkgs' # pkgs =>
          /\ last'.op \in AutoOps
          /\ Len(last'.trace.installs) = 1
          /\ \A k \in DOMAIN pkgs : pkgs'[k] # pkgs[k] => k = PackageOf(last'.op)]_vars

C5_Witness ==
  /\ last.op = "getShape"
  /\ last.value = Tuple(<<3, 2>>)
  /\ last.self = "b"
  /\ file.exists
  /\ description["b"].set
  /\ pkgs.sweetviz = "present"

\* content is the CSV text of df: a header of the column names, then one line
\* per row with one field per column, and no index column
IsCsvOf(content, df) ==
  /\ Len(content) = df.nrows + 1
  /\ content[1] = columns(df)
  /\ \A r \in 1..df.nrows :
       /\ Len(content[r + 1]) = Len(df.cols)
       /\ \A c \in 1..Len(df.cols) :
            content[r + 1][c] = CellText(df.cols[c].dtype, df.cols[c].vals[r])

\* C8: every getAutomaticGraphicalEDA that gets past the import step writes
\* the bound dataset to the fixed-named CSV file, replacing what was there,
\* before the report generator is invoked on it; no operation deletes the
\* file, so once written it exists and holds the dataset of the latest such
\* call.
C8_CsvFile ==
  /\ [](last.op = "getAutomaticGraphicalEDA" /\ last.outcome = "return" =>
          \/ Degraded
          \/ /\ last.trace.wrote
             /\ last.trace.invoked
             /\ file.exists
             /\ IsCsvOf(file.content, Bound)
             /\ last.trace.input = file)
  /\ [][/\ file.exists => file'.exists
        /\ file' # file => last'.op = "getAutomaticGraphicalEDA" /\ last'.trace.wrote]_vars

C8_Witness ==
  /\ last.op = "getAutomaticGraphicalEDA"
  /\ last.self = "b"
  /\ last.trace.wrote
  /\ file.content = << <<"a", "b">>, <<"1", "s1">>, <<"2", "s2">>, <<"2", "s2">> >>
  /\ ~IsCsvOf(file.content, dataset["a"])

(***************************************************************************)
(* Properties of two concurrent getAutomaticGraphicalEDA calls (SpecConc). *)
(***************************************************************************)
\* thread t is the one that takes this step from pc value from to pc value to
Moves(t, from, to) == inv[t].pc = from /\ inv'[t].pc = to

\* C10: nothing serializes the write-file and read-file steps of two
\* concurrent getAutomaticGraphicalEDA calls: a call that has reached either
\* step can take it whatever the other call is doing; each write replaces the
\* file with the writer's dataset, so the file holds the data of whichever
\* call wrote last; and the report generator is given the file as it is when
\* it reads, whoever wrote it.
C10_LastWriterWins ==
  /\ [](\A t \in Threads :
          /\ inv[t].pc = "write" => ENABLED GWrite(t)
          /\ inv[t].pc = "read" => ENABLED GRead(t))
  /\ [][\A t \in Threads :
          Moves(t, "write", "read") =>
            /\ file'.exists
            /\ IsCsvOf(file'.content, dataset[inv[t].self])]_vars
  /\ [][(\A t \in Threads : ~Moves(t, "write", "read")) => file' = file]_vars
  /\ [][\A t \in Threads :
          Moves(t, "read", "done") =>
            /\ inv'[t].trace.invoked
            /\ inv'[t].trace.input = file]_vars

\* the interleaving write(t1), write(t2), read(t1): the report generator of
\* the call on inspector a was given the CSV text of inspector b's dataset
C10_Witness ==
  /\ inv["t1"].pc = "done"
  /\ inv["t1"].trace.wrote
  /\ inv["t1"].trace.invoked
  /\ IsCsvOf(inv["t1"].trace.input.content, dataset["b"])
  /\ ~IsCsvOf(inv["t1"].trace.input.content, dataset["a"])
  /\ dataset["a"] # dataset["b"]

=============================================================================
